---- MODULE Spec2Model ----
(***************************************************************************)
(* ZAM: the scheduler (zam/scheduler.py run, zam/task.py run_tasks), the   *)
(* snapshot / replication / prune activities and the snapshot naming rule  *)
(* of replica_t, as state machines.                                        *)
(***************************************************************************)
EXTENDS Integers, Sequences, FiniteSets, TLC

\* ------------------------------------------------------------------ bounds
NumTasks == 3
MaxDue == 2
MaxNow == 3

\* typing.Optional[datetime]: the value a next-due query returns for "never"
None == -1

Tasks == 1..NumTasks
Dues == 0..MaxDue
OptDues == Dues \cup {None}

VARIABLES
  variant,            \* which loop runs: "scheduler" (scheduler.run) or "task" (task.run_tasks)
  pc,                 \* position of the loop
  idx,                \* next task of the input list to be mapped to a __PrioritizedTask
  heap,               \* prioritized_tasks / heap: sequence of [start, task]
  now,                \* datetime.datetime.utcnow()
  task,               \* local `task` of the loop (0 before the first iteration)
  start,              \* local `start` of the loop
  slept,              \* argument of the last time.sleep call
  sleep_from,         \* clock value the last sleep argument was computed from
  reported,           \* task -> the value its last next-due query returned (None before any)
  retired,            \* tasks whose next-due query has returned None
  order,              \* tasks of the queue in the order of their (re-)insertion
  last_call,          \* the last call made on a task: <<kind, task>>, kind in {"none","query","run"}
  ever_run            \* tasks whose run() has been invoked

sched_vars_but_now == <<variant, pc, idx, heap, task, start, slept, sleep_from,
                        reported, retired, order, last_call, ever_run>>
sched_vars == <<sched_vars_but_now, now>>

VARIABLES
  src_names,          \* backend: snapshot names under the source dataset
  dst_exists,         \* backend: destination -> whether its dataset exists
  dst_names,          \* backend: destination -> snapshot names under its dataset
  r_pc,               \* replicator.run: "idle", "dest", "pairs", "returned", "failed"
  snapshots_s,        \* replicator.run: local snapshots_s
  dest_i,             \* replicator.run: index of `dest` in dataset.destinations
  snapshots_d,        \* replicator.run: local snapshots_d
  pair_i,             \* replicator.run: index of the (previous, current) pair
  transfers,          \* clone_to calls that succeeded in the current run: <<dest, old, new>>
  last_run,           \* replicator.last_run
  hist,               \* history of the replication runs (see InitHist)
  s_run,              \* the last snapshoter.run: [result, created, ret, at]
  p_run,              \* the last do_prune: [result, ret, at, before]
  naming,             \* the naming round trip: [pc, replica, ts, name, parsed]
  listing,            \* one replica_t.list call: [pc, replica, response, raised, ret]
  cfg,                \* one replica_t construction: [pc, windows, result]
  aio,                \* the legacy entry point's event loop and coroutines (see InitLegacy)
  daemon,             \* main of src/src/zam/zam.py up to the scheduler's loop (see InitDaemon)
  clone               \* one replica_t.clone_to call (see InitCloneTo)

backend_vars == <<src_names, dst_exists, dst_names>>
repl_vars == <<r_pc, snapshots_s, dest_i, snapshots_d, pair_i, transfers, last_run, hist>>
side_vars == <<naming, listing, cfg, aio, daemon, clone>>
data_vars == <<backend_vars, repl_vars, s_run, p_run, side_vars>>

vars == <<sched_vars, data_vars>>

Max(a, b) == IF a >= b THEN a ELSE b

\* ------------------------------------------------------------ the ordering
\* scheduler.py: @dataclass(order=True), task is compare=False: entries compare
\* by start alone.
SchedLt(a, b) == a.start < b.start

\* task.py: __PrioritizedTask.__lt__, an entry without a start sorts first.
TaskLt(a, b) ==
  IF a.start = None /\ b.start = None THEN FALSE
  ELSE IF a.start = None THEN TRUE
  ELSE IF b.start = None THEN FALSE
  ELSE a.start < b.start

\* an ordering that puts the latest start first
Lt_Reversed(a, b) == b.start < a.start

\* the `<` heapq applies to two entries of the loop that is running
Lt(a, b) == IF variant = "scheduler" THEN SchedLt(a, b) ELSE TaskLt(a, b)

\* --------------------------------------------------------------- heapq
\* Positions are 0-based as in heapq; TLA+ sequences are 1-based.
At(h, p) == h[p + 1]
Put(h, p, v) == [h EXCEPT ![p + 1] = v]

RECURSIVE SiftdownLoop(_, _, _, _)
SiftdownLoop(h, startpos, pos, newitem) ==
  IF pos > startpos
    THEN LET parentpos == (pos - 1) \div 2
             parent == At(h, parentpos)
         IN IF Lt(newitem, parent)
              THEN SiftdownLoop(Put(h, pos, parent), startpos, parentpos, newitem)
              ELSE Put(h, pos, newitem)
    ELSE Put(h, pos, newitem)

siftdown(h, startpos, pos) == SiftdownLoop(h, startpos, pos, At(h, pos))

\* a sift that never looks at the right child
SmallerChild_LeftOnly(h, childpos) == childpos

\* the child heapq._siftup moves up: the right one unless the left is smaller
SmallerChild(h, childpos) ==
  LET rightpos == childpos + 1
  IN IF rightpos < Len(h) /\ ~Lt(At(h, childpos), At(h, rightpos))
       THEN rightpos ELSE childpos

RECURSIVE SiftupLoop(_, _, _, _, _)
SiftupLoop(h, startpos, pos, childpos, newitem) ==
  IF childpos < Len(h)
    THEN LET c == SmallerChild(h, childpos)
         IN SiftupLoop(Put(h, pos, At(h, c)), startpos, c, 2 * c + 1, newitem)
    ELSE siftdown(Put(h, pos, newitem), startpos, pos)

siftup(h, pos) == SiftupLoop(h, pos, pos, 2 * pos + 1, At(h, pos))

RECURSIVE HeapifyFrom(_, _)
HeapifyFrom(h, i) == IF i < 0 THEN h ELSE HeapifyFrom(siftup(h, i), i - 1)

heapify(x) == HeapifyFrom(x, (Len(x) \div 2) - 1)

\* a pop that empties the queue
heappop_DropAll(h) == <<>>

\* heapq.heappop: the heap left behind (the returned item is not used)
heappop(h) ==
  LET lastelt == h[Len(h)]
      rest == SubSeq(h, 1, Len(h) - 1)
  IN IF Len(rest) > 0 THEN siftup(Put(rest, 0, lastelt), 0) ELSE rest

\* heapq.heapreplace: the heap left behind
heapreplace(h, item) == siftup(Put(h, 0, item), 0)

PrioritizedTask(s, t) == [start |-> s, task |-> t]

\* --------------------------------------------------------------- helpers
\* a registration that keeps the tasks without a start
FilterStarted_KeepAll(s) == s

RECURSIVE FilterStarted(_)
FilterStarted(s) ==
  IF s = <<>> THEN <<>>
  ELSE IF Head(s).start # None THEN <<Head(s)>> \o FilterStarted(Tail(s))
  ELSE FilterStarted(Tail(s))

RECURSIVE Without(_, _)
Without(s, t) ==
  IF s = <<>> THEN <<>>
  ELSE IF Head(s) = t THEN Without(Tail(s), t)
  ELSE <<Head(s)>> \o Without(Tail(s), t)

\* a loop that does not wait for the due time
SleepArg_NoWait(s, n) == 0

\* time.sleep(max(0, seconds_until_start)): the argument
SleepArg(s, n) == Max(0, s - n)

\* ------------------------------------------------------------------- Init
InitSched ==
  /\ variant \in {"scheduler", "task"}
  /\ pc = "register"
  /\ idx = 1
  /\ heap = <<>>
  /\ now = 0
  /\ task = 0
  /\ start = None
  /\ slept = 0
  /\ sleep_from = 0
  /\ reported = [t \in Tasks |-> None]
  /\ retired = {}
  /\ order = <<>>
  /\ last_call = <<"none", 0>>
  /\ ever_run = {}

\* ---------------------------------------------------------------- actions
\* a map that walks the input list from its end
TaskAt_Reversed(i) == NumTasks + 1 - i

\* tasks[i - 1]: the input list holds the tasks 1..NumTasks in this order, and map
\* walks it from the front
TaskAt(i) == i

\* map(... task.getNextRuntime() ...): one task of an input list of n tasks is
\* queried
RegisterOf(n) ==
  /\ pc = "register"
  /\ idx <= n
  /\ \E d \in OptDues :
       /\ heap' = Append(heap, PrioritizedTask(d, TaskAt(idx)))
       /\ reported' = [reported EXCEPT ![TaskAt(idx)] = d]
       /\ retired' = IF d = None THEN retired \cup {TaskAt(idx)} ELSE retired
       /\ order' = IF d = None /\ variant = "scheduler"
                     THEN order ELSE Append(order, TaskAt(idx))
  /\ last_call' = <<"query", TaskAt(idx)>>
  /\ idx' = idx + 1
  /\ UNCHANGED <<data_vars, variant, pc, now, task, start, slept, sleep_from, ever_run>>

Register == RegisterOf(NumTasks)

\* filter(start is not None) (scheduler.py only) and heapq.heapify
HeapifyOf(n) ==
  /\ pc = "register"
  /\ idx > n
  /\ heap' = IF variant = "scheduler" THEN heapify(FilterStarted(heap)) ELSE heapify(heap)
  /\ pc' = "peek"
  /\ UNCHANGED <<data_vars, variant, idx, now, task, start, slept, sleep_from, reported,
                 retired, order, last_call, ever_run>>

Heapify == HeapifyOf(NumTasks)

\* while len(heap) > 0 fails: the loop returns
Return ==
  /\ pc = "peek"
  /\ Len(heap) = 0
  /\ pc' = "done"
  /\ UNCHANGED <<data_vars, variant, idx, heap, now, task, start, slept, sleep_from, reported,
                 retired, order, last_call, ever_run>>

\* task.py: the entry on top has no start: it is popped and the loop continues
DropNone ==
  /\ pc = "peek"
  /\ Len(heap) > 0
  /\ variant = "task"
  /\ heap[1].start = None
  /\ order' = Without(order, heap[1].task)
  /\ heap' = heappop(heap)
  /\ task' = heap[1].task
  /\ start' = None
  /\ UNCHANGED <<data_vars, variant, pc, idx, now, slept, sleep_from, reported, retired, last_call,
                 ever_run>>

\* task = heap[0].task; start = heap[0].start; time.sleep(max(0, start - utcnow()))
\* The sleep lasts at least its argument.
Sleep ==
  /\ pc = "peek"
  /\ Len(heap) > 0
  /\ variant = "task" => heap[1].start # None
  /\ task' = heap[1].task
  /\ start' = heap[1].start
  /\ slept' = SleepArg(heap[1].start, now)
  /\ sleep_from' = now
  /\ \E extra \in 0..1 :
       /\ now + slept' + extra <= Max(MaxNow, now + slept')
       /\ now' = now + slept' + extra
  /\ pc' = "wake"
  /\ UNCHANGED <<data_vars, variant, idx, heap, reported, retired, order, last_call, ever_run>>

\* now = utcnow(); assert now >= start; task.run()
RunTask ==
  /\ pc = "wake"
  /\ IF now >= start
       THEN /\ pc' = "ran"
            /\ last_call' = <<"run", task>>
            /\ ever_run' = ever_run \cup {task}
       ELSE /\ pc' = "failed"
            /\ UNCHANGED <<last_call, ever_run>>
  /\ UNCHANGED <<data_vars, variant, idx, heap, now, task, start, slept, sleep_from, reported,
                 retired, order>>

\* next_runtime = task.getNextRuntime(); heappop or heapreplace
\* (task.py: heapreplace in every case)
Requery ==
  /\ pc = "ran"
  /\ \E d \in OptDues :
       /\ reported' = [reported EXCEPT ![task] = d]
       /\ retired' = IF d = None THEN retired \cup {task} ELSE retired
       /\ heap' = IF d = None /\ variant = "scheduler"
                    THEN heappop(heap)
                    ELSE heapreplace(heap, PrioritizedTask(d, task))
       /\ order' = IF d = None /\ variant = "scheduler"
                     THEN Without(order, task)
                     ELSE Append(Without(order, task), task)
  /\ last_call' = <<"query", task>>
  /\ pc' = "peek"
  /\ slept' = 0
  /\ sleep_from' = 0
  /\ UNCHANGED <<data_vars, variant, idx, now, task, start, ever_run>>

\* the clock moves on its own as well (a run or a query takes time)
Tick ==
  /\ pc \in {"ran", "peek"}
  /\ now < MaxNow
  /\ now' = now + 1
  /\ UNCHANGED <<data_vars, variant, pc, idx, heap, task, start, slept, sleep_from, reported,
                 retired, order, last_call, ever_run>>

NextSched ==
  \/ Register
  \/ Heapify
  \/ Return
  \/ DropNone
  \/ Sleep
  \/ RunTask
  \/ Requery
  \/ Tick

\* =================================================================== data
\* ------------------------------------------------------------------ bounds
TicksPerSecond == 2
MaxStamp == 1
MaxElapsed == 4
NumDest == 2
SnapshotPeriodSec == 1

Dests == 1..NumDest
snapshot_period == SnapshotPeriodSec * TicksPerSecond
Horizon == MaxStamp * TicksPerSecond + MaxElapsed

Min(S) == CHOOSE x \in S : \A y \in S : x <= y
Maximum(S) == CHOOSE x \in S : \A y \in S : x >= y

RECURSIVE SortedSeq(_)
SortedSeq(S) == IF S = {} THEN <<>> ELSE <<Min(S)>> \o SortedSeq(S \ {Min(S)})

Range(s) == {s[i] : i \in 1..Len(s)}

\* ------------------------------------------------------------- the naming
\* replica_t.date_fstring: the default, and one that keeps the sub-second part
DefaultFormat == "%Y-%m-%dT%H:%M:%S"
MicroFormat == "%Y-%m-%dT%H:%M:%S.%f"
Formats == {DefaultFormat, MicroFormat}

\* replica_t.snapshot_prefix: the default, and another configured one
DefaultPrefix == "ZAM-"
Prefixes == {DefaultPrefix, "backup-"}

\* clock ticks per unit of the finest field a format renders
Resolution(fmt) == IF fmt = MicroFormat THEN 1 ELSE TicksPerSecond

\* datetime.strftime: the fields the format has, the rest of the timestamp is dropped
strftime(dt, fmt) == [fmt |-> fmt, units |-> dt \div Resolution(fmt)]

\* datetime.strptime: the fields the string has, the rest of the timestamp is zero
strptime(str, fmt) == str.units * Resolution(fmt)

\* strptime raises ValueError on a string that is not in the format
Parses(str, fmt) == str.fmt = fmt

Replica(prefix, fmt) == [snapshot_prefix |-> prefix, date_fstring |-> fmt]

\* the replicas of the managed dataset: all with the default prefix and format
source == Replica(DefaultPrefix, DefaultFormat)
destinations == [d \in Dests |-> Replica(DefaultPrefix, DefaultFormat)]

\* replica_t.get_snapshot_full_name, without the pool/dataset part (the model
\* keeps one set of names per dataset)
get_snapshot_full_name(replica, snapshot) ==
  [prefix |-> replica.snapshot_prefix, time |-> strftime(snapshot, replica.date_fstring)]

\* replica_t.list: the names that start with the replica's prefix
Managed(replica, names) == {nm \in names : nm.prefix = replica.snapshot_prefix}

\* a constructor that also rejects the current instant
snapshot_t_ok_Strict(dt, n) == dt < n

\* snapshot_t.__post_init__: `if self.datetime > now: raise ValueError`
snapshot_t_ok(dt, n) == ~(dt > n)

\* replica_t.list returns: every managed name parses, none is dated after `n`
\* (snapshot_t.__post_init__), and renders back to itself
ListOk(replica, names, n) ==
  \A nm \in Managed(replica, names) :
    /\ Parses(nm.time, replica.date_fstring)
    /\ snapshot_t_ok(strptime(nm.time, replica.date_fstring), n)
    /\ get_snapshot_full_name(replica, strptime(nm.time, replica.date_fstring)) = nm

\* replica_t.list: the snapshots, sorted
list(replica, names) ==
  SortedSeq({strptime(nm.time, replica.date_fstring) : nm \in Managed(replica, names)})

\* the name of the managed snapshot of second k under the default settings
StampName(k) == get_snapshot_full_name(source, k * TicksPerSecond)

\* ------------------------------------------------------------ replication
\* a walk that stops one pair early
NumPairs_OneShort(s) == Len(s) - 2

\* zip(snapshots_s, snapshots_s[1:]): the number of pairs and the i-th pair
NumPairs(s) == Len(s) - 1
PairAt(s, i) == <<s[i], s[i + 1]>>

\* a walk that clones every current snapshot, present or not
NeedsClone_Always(current, d) == TRUE

\* `if not current in snapshots_d`
NeedsClone(current, d) == current \notin Range(d)

\* a run that goes on with an empty source
SourceNonEmpty_Unchecked(snapshots) == TRUE

\* `assert len(snapshots_s) > 0` holds
SourceNonEmpty(snapshots) == Len(snapshots) > 0

\* a walk without the assertion
ChainBroken_Unchecked(previous, d) == FALSE

\* `assert previous in snapshots_d` fails
ChainBroken(previous, d) == previous \notin Range(d)

\* a walk that does not note what it has transferred
Appended_Forgotten(d, current) == d

\* `snapshots_d.append(current)`
Appended(d, current) == Append(d, current)

\* a run that stamps last_run on its way out, raised or not
LastRunOnRaise_Finally(lr, n) == n

\* an exception leaves run() before line 34 (`self.last_run = utcnow()`), which
\* is in no finally block: last_run keeps its value
LastRunOnRaise(lr, n) == lr

InitHist ==
  [clean |-> FALSE,            \* the last run returned normally, the source is as it was
   follows_clean |-> FALSE,    \* the value of clean when the current run began
   src_at_start |-> {},        \* the source's managed names when the current run began
   exists_at_start |-> [d \in Dests |-> FALSE],
   names_at_start |-> [d \in Dests |-> {}],   \* dst_names when the current run began
   last_run_at_start |-> 0,    \* last_run when the current run began
   prev_count |-> 0]           \* the number of transfers of the run before

InitRepl ==
  /\ r_pc = "idle"
  /\ snapshots_s = <<>>
  /\ dest_i = 0
  /\ snapshots_d = <<>>
  /\ pair_i = 0
  /\ transfers = <<>>
  /\ hist = InitHist

InitSnap == s_run = [result |-> "none", created |-> 0, ret |-> 0, at |-> 0]
InitPrune == p_run = [result |-> "none", ret |-> 0, at |-> 0, before |-> {}]
InitListing == listing = [pc |-> "off"]
InitCfg == cfg = [pc |-> "off"]
InitAio == aio = [holder |-> "off"]
InitNaming == naming = [pc |-> "off"]
NoDaemon == daemon = [pc |-> "off"]
NoClone == clone = [pc |-> "off"]

\* the pure operations and the legacy entry point while another specification runs
IdleSide == InitNaming /\ InitListing /\ InitCfg /\ InitAio /\ NoDaemon /\ NoClone

\* the scheduler's state while a specification of the dataset runs
IdleSched ==
  /\ variant = "scheduler"
  /\ pc = "off"
  /\ idx = 0
  /\ heap = <<>>
  /\ task = 0
  /\ start = None
  /\ slept = 0
  /\ sleep_from = 0
  /\ reported = <<>>
  /\ retired = {}
  /\ order = <<>>
  /\ last_call = <<"none", 0>>
  /\ ever_run = {}

\* the dataset's state while the scheduler's specification runs
IdleData ==
  /\ src_names = {}
  /\ dst_exists = [d \in Dests |-> FALSE]
  /\ dst_names = [d \in Dests |-> {}]
  /\ InitRepl
  /\ r_pc = "idle"
  /\ last_run = 0
  /\ InitSnap
  /\ InitPrune
  /\ IdleSide

\* The backend when the daemon starts: the source holds any of the snapshots of
\* the seconds 0..MaxStamp; a destination does not exist, or exists and holds
\* any of the source's snapshots (none included). The replicator is constructed
\* now: last_run = utcnow().
InitData ==
  /\ IdleSched
  /\ now \in {MaxStamp * TicksPerSecond, MaxStamp * TicksPerSecond + 1}
  /\ src_names \in SUBSET {StampName(k) : k \in 0..MaxStamp}
  /\ dst_exists \in [Dests -> BOOLEAN]
  /\ dst_names \in [Dests -> SUBSET src_names]
  /\ \A d \in Dests : ~dst_exists[d] => dst_names[d] = {}
  /\ InitRepl
  /\ last_run = now
  /\ InitSnap
  /\ InitPrune
  /\ IdleSide

Alive == r_pc # "failed" /\ s_run.result # "failed"
NoRun == r_pc \in {"idle", "returned"}

\* replicator.run, lines 16-18: list the source, assert it is not empty
ReplStart ==
  /\ Alive /\ NoRun
  /\ transfers' = <<>>
  /\ hist' = [hist EXCEPT !.follows_clean = hist.clean,
                          !.clean = FALSE,
                          !.src_at_start = Managed(source, src_names),
                          !.exists_at_start = dst_exists,
                          !.names_at_start = dst_names,
                          !.last_run_at_start = last_run,
                          !.prev_count = Len(transfers)]
  /\ IF ListOk(source, src_names, now) /\ SourceNonEmpty(list(source, src_names))
       THEN /\ snapshots_s' = list(source, src_names)
            /\ dest_i' = 1
            /\ r_pc' = "dest"
       ELSE /\ r_pc' = "failed"
            /\ dest_i' = 0
            /\ UNCHANGED snapshots_s
  /\ last_run' = IF r_pc' = "failed" THEN LastRunOnRaise(last_run, now) ELSE last_run
  /\ UNCHANGED <<now, sched_vars_but_now, backend_vars, snapshots_d, pair_i,
                 s_run, p_run, side_vars>>

\* lines 20-25: the destination that does not exist is seeded with snapshots_s[0]
\* by a full clone_to, which succeeds or raises; then the destination is listed
ReplDest ==
  /\ Alive /\ r_pc = "dest"
  /\ \E ok \in BOOLEAN :
       LET seed == get_snapshot_full_name(destinations[dest_i], snapshots_s[1])
           cloned == ~dst_exists[dest_i]
           names == IF cloned THEN dst_names[dest_i] \cup {seed} ELSE dst_names[dest_i]
       IN /\ ~cloned => ok
          /\ IF ok /\ ListOk(destinations[dest_i], names, now)
               THEN /\ dst_exists' = [dst_exists EXCEPT ![dest_i] = TRUE]
                    /\ dst_names' = [dst_names EXCEPT ![dest_i] = names]
                    /\ transfers' = IF cloned
                                      THEN Append(transfers, <<dest_i, None, snapshots_s[1]>>)
                                      ELSE transfers
                    /\ snapshots_d' = list(destinations[dest_i], names)
                    /\ pair_i' = 1
                    /\ r_pc' = "pairs"
               ELSE /\ r_pc' = "failed"
                    /\ UNCHANGED <<dst_exists, dst_names, transfers, snapshots_d, pair_i>>
  /\ last_run' = IF r_pc' = "failed" THEN LastRunOnRaise(last_run, now) ELSE last_run
  /\ UNCHANGED <<now, sched_vars_but_now, src_names, snapshots_s, dest_i, hist,
                 s_run, p_run, side_vars>>

\* lines 27-32: one (previous, current) pair: assert previous in snapshots_d; a
\* current that is missing is cloned incrementally (the clone succeeds or raises)
\* and appended to snapshots_d
ReplPair ==
  /\ Alive /\ r_pc = "pairs"
  /\ pair_i <= NumPairs(snapshots_s)
  /\ LET previous == PairAt(snapshots_s, pair_i)[1]
         current == PairAt(snapshots_s, pair_i)[2]
     IN IF ChainBroken(previous, snapshots_d)
          THEN /\ r_pc' = "failed"
               /\ UNCHANGED <<dst_names, transfers, snapshots_d, pair_i>>
          ELSE IF NeedsClone(current, snapshots_d)
            THEN \E ok \in BOOLEAN :
                   IF ok
                     THEN /\ dst_names' = [dst_names EXCEPT ![dest_i] =
                               @ \cup {get_snapshot_full_name(destinations[dest_i], current)}]
                          /\ transfers' = Append(transfers, <<dest_i, previous, current>>)
                          /\ snapshots_d' = Appended(snapshots_d, current)
                          /\ pair_i' = pair_i + 1
                          /\ UNCHANGED r_pc
                     ELSE /\ r_pc' = "failed"
                          /\ UNCHANGED <<dst_names, transfers, snapshots_d, pair_i>>
            ELSE /\ pair_i' = pair_i + 1
                 /\ UNCHANGED <<r_pc, dst_names, transfers, snapshots_d>>
  /\ last_run' = IF r_pc' = "failed" THEN LastRunOnRaise(last_run, now) ELSE last_run
  /\ UNCHANGED <<now, sched_vars_but_now, src_names, dst_exists, snapshots_s, dest_i,
                 hist, s_run, p_run, side_vars>>

\* the pairs of this destination are done: the next destination, or line 34:
\* last_run = utcnow() and the run returns
ReplNext ==
  /\ Alive /\ r_pc = "pairs"
  /\ pair_i > NumPairs(snapshots_s)
  /\ IF dest_i < NumDest
       THEN /\ dest_i' = dest_i + 1
            /\ r_pc' = "dest"
            /\ UNCHANGED <<last_run, hist>>
       ELSE /\ last_run' = now
            /\ r_pc' = "returned"
            /\ hist' = [hist EXCEPT !.clean = TRUE]
            /\ UNCHANGED dest_i
  /\ UNCHANGED <<now, sched_vars_but_now, backend_vars, snapshots_s, snapshots_d, pair_i,
                 transfers, s_run, p_run, side_vars>>

\* ---------------------------------------------------------------- snapshot
\* a check that only looks for an empty source
SnapshotDue_OnlyWhenEmpty(snapshots, n) == Len(snapshots) = 0

\* `len(snapshots) == 0 or utcnow() - snapshots[-1].datetime > snapshot_period`
SnapshotDue(snapshots, n) ==
  Len(snapshots) = 0 \/ n - snapshots[Len(snapshots)] > snapshot_period

\* snapshoter.run with managed_dataset_t.take_snapshot: `zfs snapshot` succeeds,
\* or fails (it does when the name exists) and the run raises
snapshoter_run ==
  /\ Alive /\ NoRun
  /\ LET snapshots == list(source, src_names)
         name == get_snapshot_full_name(source, now)
     IN IF ~ListOk(source, src_names, now)
          THEN /\ s_run' = [result |-> "failed", created |-> 0, ret |-> 0, at |-> now]
               /\ UNCHANGED <<src_names, hist>>
          ELSE IF SnapshotDue(snapshots, now)
            THEN \E ok \in BOOLEAN :
                   /\ ok => name \notin src_names
                   /\ IF ok
                        THEN /\ src_names' = src_names \cup {name}
                             /\ hist' = [hist EXCEPT !.clean = FALSE]
                             /\ s_run' = [result |-> "returned", created |-> 1,
                                          ret |-> now + snapshot_period, at |-> now]
                        ELSE /\ s_run' = [result |-> "failed", created |-> 0,
                                          ret |-> 0, at |-> now]
                             /\ UNCHANGED <<src_names, hist>>
            ELSE /\ s_run' = [result |-> "returned", created |-> 0,
                              ret |-> snapshots[Len(snapshots)] + snapshot_period,
                              at |-> now]
                 /\ UNCHANGED <<src_names, hist>>
  /\ UNCHANGED <<now, sched_vars_but_now, dst_exists, dst_names, r_pc, snapshots_s, dest_i,
                 snapshots_d, pair_i, transfers, last_run, p_run, side_vars>>

\* the clock of the dataset's specification
DataTick ==
  /\ Alive
  /\ pc = "off"
  /\ now < Horizon
  /\ now' = now + 1
  /\ UNCHANGED <<sched_vars_but_now, data_vars>>

\* ------------------------------------------------------------------- prune
SpanDays == 30
MaxHours == 48

Hour == 60 * 60 * TicksPerSecond
Day == 24 * Hour

\* datetime.datetime.max: later than every clock value of the model
DatetimeMax == 2147483647

\* replica_t.windows of the retention example
windows ==
  <<[max_age |-> 7 * Day, period |-> Day], [max_age |-> None, period |-> 7 * Day]>>

\* a prune that deletes the newest snapshot
PruneKeeps_DropNewest(names) ==
  names \ {get_snapshot_full_name(source, Maximum(Range(list(source, names))))}

\* a prune that deletes the oldest managed snapshot
PruneKeeps_DropOldest(names) ==
  IF Managed(source, names) = {} THEN names
  ELSE names \ {get_snapshot_full_name(source, Min(Range(list(source, names))))}

\* the names do_prune leaves under the dataset: it issues no delete
\* (replica_t.delete is not implemented and is never called)
PruneKeeps(names) == names

\* do_prune(mds): returns datetime.max
do_prune ==
  /\ Alive /\ NoRun
  /\ p_run' = [result |-> "returned", ret |-> DatetimeMax, at |-> now, before |-> src_names]
  /\ src_names' = PruneKeeps(src_names)
  /\ UNCHANGED <<now, sched_vars_but_now, dst_exists, dst_names, repl_vars, s_run, side_vars>>

\* do_prune(mds) among the other activities of the dataset; of the run only its
\* return is recorded
DataPrune ==
  /\ Alive /\ NoRun
  /\ p_run' = [p_run EXCEPT !.result = "returned", !.ret = DatetimeMax]
  /\ src_names' = PruneKeeps(src_names)
  /\ UNCHANGED <<now, sched_vars_but_now, dst_exists, dst_names, repl_vars, s_run, side_vars>>

\* the activities of one dataset and the clock
NextData ==
  \/ ReplStart
  \/ ReplDest
  \/ ReplPair
  \/ ReplNext
  \/ snapshoter_run
  \/ DataPrune
  \/ DataTick

HourPasses ==
  /\ now + Hour <= SpanDays * Day + MaxHours * Hour
  /\ now' = now + Hour
  /\ UNCHANGED <<sched_vars_but_now, data_vars>>

\* daily snapshots spanning SpanDays days, the newest up to a day old
InitPruneData ==
  /\ IdleSched
  /\ \E h \in 0..23 : now = SpanDays * Day + h * Hour
  /\ src_names = {get_snapshot_full_name(source, k * Day) : k \in 0..SpanDays}
  /\ dst_exists = [d \in Dests |-> FALSE]
  /\ dst_names = [d \in Dests |-> {}]
  /\ InitRepl
  /\ last_run = now
  /\ InitSnap
  /\ InitPrune
  /\ IdleSide

NextPrune ==
  \/ do_prune
  \/ HourPasses

\* ------------------------------------------------------ naming round trip
MaxTs == 11

\* a replica with some prefix and format, and a timestamp a snapshot_t can hold
InitName ==
  /\ IdleSched
  /\ now = MaxTs
  /\ src_names = {}
  /\ dst_exists = [d \in Dests |-> FALSE]
  /\ dst_names = [d \in Dests |-> {}]
  /\ InitRepl
  /\ last_run = 0
  /\ InitSnap
  /\ InitPrune
  /\ InitListing
  /\ InitCfg
  /\ InitAio
  /\ NoDaemon
  /\ NoClone
  /\ \E p \in Prefixes, f \in Formats, ts \in 0..MaxTs :
       naming = [pc |-> "new", replica |-> Replica(p, f), ts |-> ts]

\* the snapshot is named: f"...{prefix}{datetime.strftime(date_fstring)}"
Render ==
  /\ naming.pc = "new"
  /\ naming' = [pc |-> "named", replica |-> naming.replica, ts |-> naming.ts,
                name |-> get_snapshot_full_name(naming.replica, naming.ts)]
  /\ UNCHANGED <<sched_vars, backend_vars, repl_vars, s_run, p_run, listing, cfg, aio, daemon, clone>>

\* the name is parsed as replica_t.list parses one line of the backend's listing
Parse ==
  /\ naming.pc = "named"
  /\ ListOk(naming.replica, {naming.name}, now)
  /\ naming' = [pc |-> "parsed", replica |-> naming.replica, ts |-> naming.ts,
                name |-> naming.name,
                parsed |-> list(naming.replica, {naming.name})[1]]
  /\ UNCHANGED <<sched_vars, backend_vars, repl_vars, s_run, p_run, listing, cfg, aio, daemon, clone>>

NextName ==
  \/ Render
  \/ Parse

\* ------------------------------------------------- the legacy entry point
NumDatasets == 2

\* conf.managed_datasets are the datasets 1..NumDatasets, in this order

\* the three async_loop coroutines, in the order main creates their tasks
Loops == <<"snapshot", "replicate", "prune">>
LoopNames == Range(Loops)
Coros == LoopNames \cup {"main"}

\* the scheduler and the dataset while a pure operation or the legacy entry
\* point is modelled
IdleRest ==
  /\ IdleSched
  /\ src_names = {}
  /\ dst_exists = [d \in Dests |-> FALSE]
  /\ dst_names = [d \in Dests |-> {}]
  /\ InitRepl
  /\ last_run = 0
  /\ InitSnap
  /\ InitPrune

\* asyncio.run(main()): main holds the thread, no task is created yet.
\*   holder  the coroutine that is executing ("none": the event loop itself,
\*           "exit": main has raised and asyncio.run has returned)
\*   ready   the event loop's FIFO of callbacks ready to run
\*   st      coroutine -> "new", "ready", "run", "sleep" (awaiting asyncio.sleep)
\*           or "done" (the task ended with an exception)
\*   ds      loop -> position in `datasets` of map(func, datasets)
\*   busy    loop -> func(datasets[ds]) has been called and has not returned
InitLegacy ==
  /\ IdleRest
  /\ now = 0
  /\ InitNaming
  /\ InitListing
  /\ InitCfg
  /\ NoDaemon
  /\ NoClone
  /\ aio = [holder |-> "main",
            ready |-> <<>>,
            st |-> [c \in Coros |-> IF c = "main" THEN "run" ELSE "new"],
            ds |-> [c \in LoopNames |-> 1],
            busy |-> [c \in LoopNames |-> FALSE]]

\* an event loop that runs a ready callback while a coroutine is executing
CanDispatch_Preempt(a) == a.holder # "exit"

\* the event loop runs callbacks one at a time: it takes the next one only when
\* the coroutine that was executing has reached an await (or ended)
CanDispatch(a) == a.holder = "none"

\* the do_* functions that can raise (do_prune only returns datetime.max)
CanRaise(c) == c # "prune"

legacy_rest == <<sched_vars, backend_vars, repl_vars, s_run, p_run, naming, listing, cfg,
                 daemon, clone>>

\* main, lines 468-475: asyncio.create_task for the three loops, in this order
MainCreateTasks ==
  /\ aio.holder = "main"
  /\ aio.st["snapshot"] = "new"
  /\ aio' = [aio EXCEPT !.ready = aio.ready \o Loops,
                        !.st = [c \in Coros |-> IF c = "main" THEN "run" ELSE "ready"]]
  /\ UNCHANGED legacy_rest

\* main, lines 477-486: a task that is done makes main raise; else await sleep(1)
MainCheck ==
  /\ aio.holder = "main"
  /\ aio.st["snapshot"] # "new"
  /\ IF \E c \in LoopNames : aio.st[c] = "done"
       THEN aio' = [aio EXCEPT !.holder = "exit", !.st["main"] = "done"]
       ELSE aio' = [aio EXCEPT !.holder = "none", !.st["main"] = "sleep"]
  /\ UNCHANGED legacy_rest

\* the event loop resumes the first ready coroutine; an async_loop coroutine
\* starts (or starts over) its `while True` body
Dispatch ==
  /\ CanDispatch(aio)
  /\ aio.ready # <<>>
  /\ LET c == Head(aio.ready)
     IN aio' = [aio EXCEPT !.holder = c,
                           !.ready = Tail(aio.ready),
                           !.st[c] = "run",
                           !.ds = IF c \in LoopNames THEN [aio.ds EXCEPT ![c] = 1] ELSE aio.ds]
  /\ UNCHANGED legacy_rest

\* an asyncio.sleep ends: the event loop puts the sleeper on the ready queue
Timer ==
  /\ CanDispatch(aio)
  /\ \E c \in Coros :
       /\ aio.st[c] = "sleep"
       /\ aio' = [aio EXCEPT !.st[c] = "ready", !.ready = Append(aio.ready, c)]
  /\ UNCHANGED legacy_rest

\* async_loop, line 421: map(func, datasets) calls func on the next dataset
ActivityBegin ==
  /\ \E c \in LoopNames :
       /\ aio.holder = c
       /\ ~aio.busy[c]
       /\ aio.ds[c] <= NumDatasets
       /\ aio' = [aio EXCEPT !.busy[c] = TRUE]
  /\ UNCHANGED legacy_rest

\* func(dataset) returns its next time, or raises and ends the loop's task
ActivityEnd ==
  /\ \E c \in LoopNames :
       /\ aio.holder = c
       /\ aio.busy[c]
       /\ \E ok \in BOOLEAN :
            /\ ~ok => CanRaise(c)
            /\ IF ok
                 THEN aio' = [aio EXCEPT !.busy[c] = FALSE, !.ds[c] = @ + 1]
                 ELSE aio' = [aio EXCEPT !.busy[c] = FALSE, !.st[c] = "done",
                                         !.holder = "none"]
  /\ UNCHANGED legacy_rest

\* async_loop, lines 422-423: every dataset is done: await asyncio.sleep(...)
LoopAwait ==
  /\ \E c \in LoopNames :
       /\ aio.holder = c
       /\ ~aio.busy[c]
       /\ aio.ds[c] > NumDatasets
       /\ aio' = [aio EXCEPT !.st[c] = "sleep", !.holder = "none"]
  /\ UNCHANGED legacy_rest

NextLegacy ==
  \/ MainCreateTasks
  \/ MainCheck
  \/ Dispatch
  \/ Timer
  \/ ActivityBegin
  \/ ActivityEnd
  \/ LoopAwait

\* ------------------------------------------ the loop with advancing tasks
\* The loop of scheduler.run when every next-due query returns a time later
\* than the one the task reported before, and never None. The loop runs
\* forever, so times are kept as offsets from the earliest time the state
\* still refers to; an offset is never negative and never None.
MaxLag == 1
NumLive == 2

\* the input list: the tasks 1..NumLive
LiveTasks == 1..NumLive

Starts(h) == {h[i].start : i \in 1..Len(h)}

\* the queue with every start moved back by o
Rebase(h, o) == [i \in 1..Len(h) |-> PrioritizedTask(h[i].start - o, h[i].task)]

InitLive == InitSched /\ variant = "scheduler" /\ IdleData

\* the registration query returns a time: now .. now + MaxDue
LiveRegister == RegisterOf(NumLive) /\ retired' = {}

LiveHeapify == HeapifyOf(NumLive)

\* the times the queries have reported, moved back by o
RebaseReported(r, o) == [t \in Tasks |-> IF t \in LiveTasks THEN r[t] - o ELSE r[t]]

\* task, start = heap[0]; time.sleep(max(0, start - utcnow())). The clock the
\* loop wakes at is at most MaxLag after the earliest pending start.
LiveSleep ==
  /\ pc = "peek"
  /\ Len(heap) > 0
  /\ \E extra \in 0..1 :
       LET arg == SleepArg(heap[1].start, now)
           woke == now + arg + extra
           o == Min(Starts(heap) \cup {now})
       IN /\ woke - Min(Starts(heap)) <= MaxLag
          /\ task' = heap[1].task
          /\ start' = heap[1].start - o
          /\ slept' = arg
          /\ sleep_from' = now - o
          /\ now' = woke - o
          /\ heap' = Rebase(heap, o)
          /\ reported' = RebaseReported(reported, o)
  /\ pc' = "wake"
  /\ UNCHANGED <<data_vars, variant, idx, retired, order, last_call, ever_run>>

\* next_runtime = task.getNextRuntime(): later than the start just served, at
\* most MaxDue after the clock; heapq.heapreplace gives the queue h, and o is
\* the earliest time the new state refers to
LiveRequery ==
  /\ pc = "ran"
  /\ \E d \in (reported[task] + 1)..(now + MaxDue) :
     \E h \in {heapreplace(heap, PrioritizedTask(d, task))} :
     \E o \in {Min(Starts(h) \cup {now, start})} :
          /\ heap' = Rebase(h, o)
          /\ reported' = RebaseReported([reported EXCEPT ![task] = d], o)
          /\ now' = now - o
          /\ start' = start - o
  /\ order' = Append(Without(order, task), task)
  /\ last_call' = <<"query", task>>
  /\ pc' = "peek"
  /\ slept' = 0
  /\ sleep_from' = 0
  /\ UNCHANGED <<data_vars, variant, idx, task, retired, ever_run>>

\* the clock moves on its own, no further than MaxLag after the earliest
\* pending start
LiveTick ==
  /\ pc \in {"ran", "peek"}
  /\ now + 1 - Min(Starts(heap)) <= MaxLag
  /\ LET o == Min(Starts(heap) \cup {now + 1}
                  \cup (IF task # 0 THEN {start} ELSE {})
                  \cup (IF pc = "ran" THEN {sleep_from} ELSE {}))
     IN /\ now' = now + 1 - o
        /\ heap' = Rebase(heap, o)
        /\ reported' = RebaseReported(reported, o)
        /\ start' = IF task # 0 THEN start - o ELSE start
        /\ sleep_from' = IF pc = "ran" THEN sleep_from - o ELSE sleep_from
  /\ UNCHANGED <<data_vars, variant, pc, idx, task, slept, retired, order, last_call,
                 ever_run>>

\* the steps of the program (the clock is the environment's)
LiveLoop ==
  \/ LiveRegister
  \/ LiveHeapify
  \/ LiveSleep
  \/ RunTask
  \/ LiveRequery

NextLive ==
  \/ LiveLoop
  \/ LiveTick

\* ------------------------------------------------------- replica_t.list
MaxLines == 3

\* stderr of `zfs list`: nothing, nothing to list, or no such dataset
NoDatasets == "no datasets available\n"
CannotOpen == "cannot open: dataset does not exist\n"
Stderrs == {"", NoDatasets, CannotOpen}

\* the snapshot names a dataset can hold: managed or not, of the seconds
\* 0..MaxStamp + 1 (the last one is after the clock)
BackendNames ==
  {[prefix |-> p, time |-> strftime(k * TicksPerSecond, DefaultFormat)] :
     p \in Prefixes, k \in 0..(MaxStamp + 1)}

\* the sequences of at most n distinct elements of S, in every order
RECURSIVE ListingsOf(_, _)
ListingsOf(S, n) ==
  IF n = 0 THEN {<<>>}
  ELSE LET shorter == ListingsOf(S, n - 1)
       IN shorter \cup {Append(l, x) : l \in shorter, x \in S}

Distinct(l) == Cardinality(Range(l)) = Len(l)

\* what subprocess.run hands back: exit status, stderr, the first line of stdout
\* and the names on the lines after it
Responses ==
  {[returncode |-> rc, stderr |-> e, header |-> h, lines |-> l] :
     rc \in {0, 1}, e \in Stderrs, h \in {"NAME", ""},
     l \in {x \in ListingsOf(BackendNames, MaxLines) : Distinct(x)}}

\* pretty_check_returncode does not raise
ReturncodeOk(returncode) == ~(returncode # None /\ returncode # 0)

\* the loop over the lines: the snapshots of the managed lines, in line order
RECURSIVE ParseLines(_, _)
ParseLines(replica, lines) ==
  IF lines = <<>> THEN <<>>
  ELSE IF Head(lines).prefix # replica.snapshot_prefix
    THEN ParseLines(replica, Tail(lines))
    ELSE <<strptime(Head(lines).time, replica.date_fstring)>>
           \o ParseLines(replica, Tail(lines))

\* a list() that returns the snapshots in the order of the backend's lines
sort_AsReported(ret) == ret

\* ret.sort(): ascending by datetime
RECURSIVE sort(_)
sort(ret) ==
  IF ret = <<>> THEN <<>>
  ELSE LET least == Min(Range(ret))
           at == CHOOSE i \in 1..Len(ret) : ret[i] = least /\ \A j \in 1..(i - 1) : ret[j] # least
       IN <<least>> \o sort(SubSeq(ret, 1, at - 1) \o SubSeq(ret, at + 1, Len(ret)))

Raised == [raised |-> TRUE, ret |-> <<>>]
Returned(ret) == [raised |-> FALSE, ret |-> ret]

\* replica_t.list on the response `resp` with the clock at n
list_call(replica, resp, n) ==
  IF ~ReturncodeOk(resp.returncode) THEN Raised
  ELSE IF resp.stderr = NoDatasets THEN Returned(<<>>)
  ELSE IF resp.header # "NAME" THEN Raised
  ELSE IF ~ListOk(replica, Range(resp.lines), n) THEN Raised
  ELSE Returned(sort(ParseLines(replica, resp.lines)))

\* a replica and its backend's answer to one listing, or a timestamp to build a
\* snapshot_t from
InitList ==
  /\ IdleRest
  /\ now \in {MaxStamp * TicksPerSecond, MaxStamp * TicksPerSecond + 1}
  /\ InitNaming
  /\ InitCfg
  /\ InitAio
  /\ NoDaemon
  /\ NoClone
  /\ \/ \E p \in Prefixes, f \in Formats, r \in Responses :
          listing = [pc |-> "call", replica |-> Replica(p, f), response |-> r]
     \/ \E ts \in 0..((MaxStamp + 1) * TicksPerSecond) :
          listing = [pc |-> "new", ts |-> ts]

list_rest == <<sched_vars, backend_vars, repl_vars, s_run, p_run, naming, cfg, aio,
               daemon, clone>>

ListCall ==
  /\ listing.pc = "call"
  /\ listing' = [pc |-> "listed", replica |-> listing.replica, response |-> listing.response,
                 result |-> list_call(listing.replica, listing.response, now)]
  /\ UNCHANGED list_rest

\* snapshot_t(datetime=ts)
NewSnapshot ==
  /\ listing.pc = "new"
  /\ listing' = [pc |-> "built", ts |-> listing.ts, raised |-> ~snapshot_t_ok(listing.ts, now)]
  /\ UNCHANGED list_rest

NextList ==
  \/ ListCall
  \/ NewSnapshot

\* ------------------------------------------------- replica_t's windows
MaxWindows == 3
MaxAge == 1
MaxPeriod == 2

\* datetime.timedelta.max: longer than every duration of the model
TimedeltaMax == 999999999

\* window_t values: max_age is absent (None) or a duration, zero included
WindowValues ==
  {[max_age |-> a, period |-> q] : a \in (0..MaxAge) \cup {None}, q \in 1..MaxPeriod}

\* Python's truth value of an Optional[timedelta]: None and timedelta(0) are false
Truthy(v) == v # None /\ v # 0

\* lambda x: x.max_age or datetime.timedelta.max
get_window_max_age(x) == IF Truthy(x.max_age) THEN x.max_age ELSE TimedeltaMax

\* lambda x: x.period
get_window_period(x) == x.period

\* sorted(l, key=key), key a function on the elements of l: stable, so the
\* element at position i goes after the elements with a smaller key and the
\* earlier elements with the same key
sorted(l, key) ==
  LET place(i) == Cardinality({j \in 1..Len(l) : key[l[j]] < key[l[i]]})
                  + Cardinality({j \in 1..(i - 1) : key[l[j]] = key[l[i]]}) + 1
  IN [q \in 1..Len(l) |-> l[CHOOSE i \in 1..Len(l) : place(i) = q]]

\* window_t.__eq__ as the dataclass generates it: period is compare=False
window_eq(a, b) == a.max_age = b.max_age

\* list.__eq__ over window_t
windows_eq(a, b) == Len(a) = Len(b) /\ \A i \in 1..Len(a) : window_eq(a[i], b[i])

\* replica_t.__post_init__: the ValueError it raises, or "accepted"
post_init(ws) ==
  IF ~windows_eq(ws, sorted(ws, [x \in Range(ws) |-> get_window_max_age(x)]))
    THEN "not sorted by max_age"
  ELSE IF ~windows_eq(ws, sorted(ws, [x \in Range(ws) |-> get_window_period(x)]))
    THEN "periods not increasing"
  ELSE "accepted"

InitConfig ==
  /\ IdleRest
  /\ now = 0
  /\ InitNaming
  /\ InitListing
  /\ InitAio
  /\ NoDaemon
  /\ NoClone
  /\ \E ws \in ListingsOf(WindowValues, MaxWindows) : cfg = [pc |-> "new", windows |-> ws]

\* replica_t(..., windows=ws)
BuildReplica ==
  /\ cfg.pc = "new"
  /\ cfg' = [pc |-> "built", windows |-> cfg.windows, result |-> post_init(cfg.windows)]
  /\ UNCHANGED <<sched_vars, backend_vars, repl_vars, s_run, p_run, naming, listing, aio,
                 daemon, clone>>

NextConfig == BuildReplica

\* -------------------------------------------------------- the daemon's start
ReplicationPeriodSec == 1
PrunePeriodSec == 1

\* managed_dataset_t.replication_period and prune_period: not below
\* snapshot_period (managed_dataset_t.__post_init__)
replication_period == ReplicationPeriodSec * TicksPerSecond
prune_period == PrunePeriodSec * TicksPerSecond

\* the task classes, in the order main appends them for one dataset
Kinds == <<"snapshoter", "replicator", "pruner">>

\* main: `for dataset in conf.managed_datasets:` append snapshoter(dataset),
\* replicator(dataset), pruner(dataset)
TaskList(n) == [i \in 1..(3 * n) |-> Kinds[((i - 1) % 3) + 1]]

\* the task lists a loop is started with: main's list for 1..NumDatasets
\* datasets, or a caller's own list of one or two tasks
TaskLists ==
  {TaskList(n) : n \in 1..NumDatasets} \cup {<<k>> : k \in Range(Kinds)}
    \cup {<<k, l>> : k \in Range(Kinds), l \in Range(Kinds)}

\* the name under which a loop asks a task for its next due time:
\* scheduler.run calls task.getNextRuntime(), task.run_tasks calls
\* task.get_next_runtime()
QueryName(v) == IF v = "scheduler" THEN "getNextRuntime" ELSE "get_next_runtime"

\* the methods the classes snapshoter and replicator define
Methods(kind) ==
  CASE kind = "snapshoter" -> {"run"}
    [] kind = "replicator" -> {"get_next_runtime", "run"}
    [] OTHER -> {"run"}

\* the pruner, by its design: a Task that exposes the loop's next-due query
pruner_answers(query) == TRUE

Answers(kind, query) ==
  IF kind = "pruner" THEN pruner_answers(query) ELSE query \in Methods(kind)

\* a replicator whose next due time is its last run
get_next_runtime_NoPeriod(lr) == lr

\* replicator.get_next_runtime: `return self.last_run + self.dataset.replication_period`
get_next_runtime(lr) == lr + replication_period

\* the pruner's next due time, by its design: now + prune_period
pruner_next_due(n) == n + prune_period

\* main has read its configuration; the loop it will start and the tasks it
\* will hand to it are chosen:
\*   loop    "scheduler" (scheduler.run, as main calls it) or "task" (task.run_tasks)
\*   plan    the task classes to construct, in order
\*   main    the plan is main's
\*   tasks   the tasks constructed so far: [kind, last_run] (last_run is the
\*           replicator's field, None for the other classes)
\*   i       the number of tasks whose next-due query has been answered
\*   dues    the answers, in the order of the tasks
\*   error   "none", or the exception that ended the process
InitDaemon ==
  /\ IdleRest
  /\ InitNaming /\ InitListing /\ InitCfg /\ InitAio /\ NoClone
  /\ now \in {MaxStamp * TicksPerSecond, MaxStamp * TicksPerSecond + 1}
  /\ \E names \in SUBSET {StampName(k) : k \in 0..MaxStamp},
        l \in {"scheduler", "task"}, plan \in TaskLists :
       daemon = [pc |-> "build", loop |-> l, plan |-> plan,
                 main |-> (plan \in {TaskList(n) : n \in 1..NumDatasets} /\ l = "scheduler"),
                 source |-> names, tasks |-> <<>>, i |-> 0, dues |-> <<>>,
                 error |-> "none"]

daemon_rest == <<sched_vars_but_now, backend_vars, repl_vars, s_run, p_run, naming,
                 listing, cfg, aio, clone>>

\* one constructor call of main's loop; replicator.__init__ sets
\* last_run = utcnow(). After the last one the loop is called.
DaemonBuild ==
  /\ daemon.pc = "build"
  /\ LET kind == daemon.plan[Len(daemon.tasks) + 1]
         built == Append(daemon.tasks,
                         [kind |-> kind,
                          last_run |-> IF kind = "replicator" THEN now ELSE None])
     IN daemon' = [daemon EXCEPT !.tasks = built,
                                 !.pc = IF Len(built) = Len(daemon.plan)
                                          THEN "register" ELSE "build"]
  /\ UNCHANGED <<now, daemon_rest>>

\* the loop's first pass (scheduler.py lines 39-41, task.py line 52): the next
\* task of the list is asked for its next due time; a class without the method
\* raises AttributeError, which nothing catches
DaemonQuery ==
  /\ daemon.pc = "register"
  /\ LET t == daemon.tasks[daemon.i + 1]
         due == IF t.kind = "replicator" THEN get_next_runtime(t.last_run)
                                         ELSE pruner_next_due(now)
     IN IF Answers(t.kind, QueryName(daemon.loop))
          THEN daemon' = [daemon EXCEPT !.dues = Append(@, due),
                                        !.i = @ + 1,
                                        !.pc = IF daemon.i + 1 = Len(daemon.tasks)
                                                 THEN "loop" ELSE "register"]
          ELSE daemon' = [daemon EXCEPT !.pc = "crashed", !.error = "AttributeError"]
  /\ UNCHANGED <<now, daemon_rest>>

\* the clock while main runs
DaemonTick ==
  /\ daemon.pc \in {"build", "register"}
  /\ now < Horizon
  /\ now' = now + 1
  /\ UNCHANGED <<daemon_rest, daemon>>

NextDaemon ==
  \/ DaemonBuild
  \/ DaemonQuery
  \/ DaemonTick

\* ------------------------------------------------------------- one transfer
\* the exit statuses of `zfs send` and `zfs recv`
ExitCodes == {0, 1}

Sides == {"source", "dest"}

\* a loop that is satisfied with the send side
BothDone_SourceOnly(status_source, status_dest) == status_source = 0

\* `if status_source == 0 and status_dest == 0: break`
BothDone(status_source, status_dest) == status_source = 0 /\ status_dest = 0

\* clone_to has started both processes (the two Popen calls) and enters its
\* loop; the caller waits for it (replicator.run line 31, or line 24).
\*   old      snapshot_old: None for a full transfer
\*   proc     side -> [eof, code]: the process has closed its stderr; its exit
\*            status (None while it runs)
\*   status   side -> the local status_source / status_dest (None before the
\*            first poll and when the poll found the process running)
\*   seen     the <<side, status>> pairs the polls have returned
\*   recorded the caller has executed the statement after the call
\*            (`snapshots_d.append(current)`)
InitCloneTo ==
  /\ IdleRest
  /\ InitNaming /\ InitListing /\ InitCfg /\ InitAio /\ NoDaemon
  /\ now = 0
  /\ \E old \in {None, 0} :
       clone = [pc |-> "poll_source", old |-> old,
                proc |-> [x \in Sides |-> [eof |-> FALSE, code |-> None]],
                status |-> [x \in Sides |-> None],
                seen |-> {}, recorded |-> FALSE]

clone_rest == <<sched_vars, backend_vars, repl_vars, s_run, p_run, naming, listing, cfg,
                aio, daemon>>

CloneRunning == clone.pc \notin {"off", "returned", "raised"}

\* a process closes its stderr while it keeps running
CloseStderr ==
  /\ CloneRunning
  /\ \E x \in Sides :
       /\ clone.proc[x].code = None
       /\ ~clone.proc[x].eof
       /\ clone' = [clone EXCEPT !.proc[x].eof = TRUE]
  /\ UNCHANGED clone_rest

\* a process exits, which closes its stderr
Exit ==
  /\ CloneRunning
  /\ \E x \in Sides, c \in ExitCodes :
       /\ clone.proc[x].code = None
       /\ clone' = [clone EXCEPT !.proc[x] = [eof |-> TRUE, code |-> c]]
  /\ UNCHANGED clone_rest

\* `status_source = popen_source.poll()`, `status_dest = popen_dest.poll()`
Poll ==
  /\ clone.pc \in {"poll_source", "poll_dest"}
  /\ LET x == IF clone.pc = "poll_source" THEN "source" ELSE "dest"
     IN clone' = [clone EXCEPT !.status[x] = clone.proc[x].code,
                               !.seen = @ \cup {<<x, clone.proc[x].code>>},
                               !.pc = IF x = "source" THEN "read_source" ELSE "read_dest"]
  /\ UNCHANGED clone_rest

\* `popen.stderr.read()` returns at the end of the stream; then
\* pretty_check_returncode raises on a status that is neither None nor 0. After
\* the receive side's check the loop ends when both statuses are 0, and sleeps
\* otherwise
ReadAndCheck ==
  /\ clone.pc \in {"read_source", "read_dest"}
  /\ LET x == IF clone.pc = "read_source" THEN "source" ELSE "dest"
     IN /\ clone.proc[x].eof
        /\ clone' = [clone EXCEPT !.pc =
             IF ~ReturncodeOk(clone.status[x]) THEN "raised"
             ELSE IF x = "source" THEN "poll_dest"
             ELSE IF BothDone(clone.status["source"], clone.status["dest"]) THEN "returned"
             ELSE "sleep"]
  /\ UNCHANGED clone_rest

\* `time.sleep(1)` returns
CloneSleep ==
  /\ clone.pc = "sleep"
  /\ clone' = [clone EXCEPT !.pc = "poll_source"]
  /\ UNCHANGED clone_rest

\* clone_to has returned: the caller's next statement
CloneRecord ==
  /\ clone.pc = "returned"
  /\ ~clone.recorded
  /\ clone' = [clone EXCEPT !.recorded = TRUE]
  /\ UNCHANGED clone_rest

NextCloneTo ==
  \/ CloseStderr
  \/ Exit
  \/ Poll
  \/ ReadAndCheck
  \/ CloneSleep
  \/ CloneRecord

Init == InitSched /\ IdleData

Next == NextSched

Spec == Init /\ [][Next]_vars

SpecData == InitData /\ [][NextData]_vars

SpecPrune == InitPruneData /\ [][NextPrune]_vars

SpecName == InitName /\ [][NextName]_vars

\* the program keeps executing: a sleep returns, a run and a query return
SpecLive == InitLive /\ [][NextLive]_vars /\ WF_vars(LiveLoop)

SpecList == InitList /\ [][NextList]_vars

SpecConfig == InitConfig /\ [][NextConfig]_vars

SpecLegacy == InitLegacy /\ [][NextLegacy]_vars

SpecDaemon == InitDaemon /\ [][NextDaemon]_vars

SpecCloneTo == InitCloneTo /\ [][NextCloneTo]_vars

\* ----------------------------------------------------------------- claims
\* t comes before u in the sequence s (both occur in it)
Before(s, t, u) ==
  \E i, j \in 1..Len(s) : i < j /\ s[i] = t /\ s[j] = u

\* the loop has picked `task` and is about to call, or has just called, its run()
Picked == pc \in {"wake", "ran"}

\* C1: the task whose run() is invoked next is the entry on top of the queue, its
\* start is the due time it last reported, and no task still in the queue has an
\* earlier pending due time.
C1_EarliestDueRunsNext ==
  Picked =>
    /\ heap[1].task = task
    /\ start = reported[task]
    /\ \A i \in 1..Len(heap) :
         /\ heap[i].start = reported[heap[i].task]
         /\ heap[i].start # None => start <= heap[i].start

C1_Witness ==
  /\ pc = "ran"
  /\ Len(heap) = 3
  /\ task = 3
  /\ ever_run = {1, 2, 3}
  /\ \E i \in 1..Len(heap) : heap[i].start # None /\ heap[i].start > start

\* C2: run() is invoked only with the clock at or after the due time the task last
\* reported; the sleep before it is max(0, due - now): zero for an overdue task,
\* the remaining time otherwise; the loop's assertion never fails.
C2_NeverBeforeDue ==
  /\ pc # "failed"
  /\ Picked =>
       /\ now >= reported[task]
       /\ reported[task] # None
       /\ slept = (IF reported[task] <= sleep_from THEN 0 ELSE reported[task] - sleep_from)

C2_Witness ==
  /\ pc = "ran"
  /\ ever_run = {1, 2}
  /\ task = 2
  /\ slept = 0
  /\ now > reported[2]
  /\ reported[1] > now

\* C3: a task whose next-due query has returned None (at registration or after a
\* run) is never picked again: neither its run() nor its next-due query is called.
C3_RetiredNeverInvoked ==
  Picked => task \notin retired

C3_Witness ==
  /\ pc = "ran"
  /\ 1 \in retired /\ 1 \in ever_run
  /\ 2 \in retired /\ 2 \notin ever_run
  /\ task = 3

\* C10: among the entries of the queue that share the due time of the task picked,
\* the task picked is the one inserted first.
C10_TiesInInsertionOrder ==
  pc = "wake" =>
    \A i \in 1..Len(heap) :
      (heap[i].task # task /\ heap[i].start = start) => Before(order, task, heap[i].task)


\* the transfers of the current run that went to destination d
TransfersTo(d) == SelectSeq(transfers, LAMBDA t : t[1] = d)

\* full(S1), incremental(S1 -> S2), ..., incremental(S(n-1) -> Sn) to destination d
Chain(s, d) ==
  [i \in 1..Len(s) |-> IF i = 1 THEN <<d, None, s[1]>> ELSE <<d, s[i - 1], s[i]>>]

\* the managed snapshots a set of names stands for
Snapshots(replica, names) == Range(list(replica, names))

\* C4: when replicator.run has returned normally, every managed snapshot the
\* source held when the run began is on every destination.
C4_AllReplicated ==
  r_pc = "returned" =>
    \A d \in Dests :
      Snapshots(source, hist.src_at_start) \subseteq Snapshots(destinations[d], dst_names[d])

\* C5: a destination that did not exist when the run began has received exactly
\* full(S1), incremental(S1 -> S2), ..., incremental(S(n-1) -> Sn), in that
\* order, when the run has returned, and holds exactly S1..Sn.
C5_FullThenIncrementals ==
  r_pc = "returned" =>
    \A d \in Dests :
      ~hist.exists_at_start[d] =>
        /\ TransfersTo(d) = Chain(snapshots_s, d)
        /\ list(destinations[d], dst_names[d]) = snapshots_s
        /\ dst_names[d] = hist.src_at_start

C5_Witness ==
  /\ r_pc = "returned"
  /\ Len(snapshots_s) = 3
  /\ \A d \in Dests : ~hist.exists_at_start[d]

\* C6: a run that follows a run that returned normally, with the source's
\* snapshots unchanged in between, makes no transfer to any destination.
C6_SecondRunTransfersNothing ==
  hist.follows_clean => transfers = <<>>

C6_Witness ==
  /\ r_pc = "returned"
  /\ hist.follows_clean
  /\ hist.prev_count >= 2 * NumDest

\* C7: when snapshoter.run has returned normally, the source holds a managed
\* snapshot and the newest one is at most snapshot_period older than the clock
\* value of the run.
C7_NewestWithinPeriod ==
  s_run.result = "returned" =>
    /\ Managed(source, src_names) # {}
    /\ s_run.at - Maximum(Snapshots(source, src_names)) <= snapshot_period

C7_Witness ==
  /\ s_run.result = "returned"
  /\ s_run.created = 0
  /\ s_run.at - Maximum(Snapshots(source, src_names)) = snapshot_period

\* C8: after do_prune, with the windows {7 days, 1 day} and {forever, 7 days}
\* and daily snapshots over SpanDays days: two consecutive retained snapshots,
\* the older of them at most 7 days old, are at most 1 day apart, any two
\* consecutive retained snapshots are at most 7 days apart, and the newest
\* snapshot is retained.
C8_RetentionGaps ==
  p_run.result = "returned" =>
    LET kept == list(source, src_names)
    IN /\ \A i \in 1..(Len(kept) - 1) :
            /\ p_run.at - kept[i] <= windows[1].max_age
                 => kept[i + 1] - kept[i] <= windows[1].period
            /\ kept[i + 1] - kept[i] <= windows[2].period
       /\ Maximum(Snapshots(source, p_run.before)) \in Range(kept)

C8_Witness ==
  /\ p_run.result = "returned"
  /\ Cardinality(p_run.before) = 31
  /\ now > p_run.at

\* C11: the next-due queries of the loop. At the start every task of the input
\* list is queried, one after the other in list order, before any run(); after
\* that a run() is only called after a query, and a query is only called right
\* after a run() and on the task that was run: the calls alternate run(T),
\* query(T).
C11_QueriesAlternateWithRuns ==
  [][last_call' # last_call =>
       \/ /\ pc = "register"
          /\ ever_run = {}
          /\ last_call = (IF idx = 1 THEN <<"none", 0>> ELSE <<"query", idx - 1>>)
          /\ last_call' = <<"query", idx>>
       \/ /\ pc # "register"
          /\ last_call[1] = "query"
          /\ last_call'[1] = "run"
       \/ /\ pc # "register"
          /\ last_call[1] = "run"
          /\ last_call' = <<"query", last_call[2]>>]_vars

C11_Witness ==
  /\ pc = "peek"
  /\ last_call = <<"query", 2>>
  /\ ever_run = {1, 2, 3}
  /\ retired = {}

\* the activities (a do_* function on a dataset) that have begun and not ended
Active == {c \in LoopNames : aio.busy[c]}

\* C12: in the legacy entry point at most one activity is in progress at any
\* moment, and it belongs to the coroutine that holds the thread: an activity
\* begun on a dataset has ended before any other activity begins.
C12_OneActivityAtATime ==
  /\ Cardinality(Active) <= 1
  /\ \A c \in Active : aio.holder = c

C12_Witness ==
  /\ aio.busy["replicate"]
  /\ aio.ds["replicate"] = NumDatasets
  /\ aio.st["snapshot"] = "ready"
  /\ aio.st["prune"] = "ready"
  /\ aio.st["main"] = "ready"

\* C13: with every task reporting later and later due times and never None,
\* every task is run again and again, and the start the loop is about to serve
\* is never earlier than the start it served last.
C13_NoStarvationInDueOrder ==
  /\ \A t \in LiveTasks : []<>(pc = "ran" /\ task = t)
  /\ [](pc = "peek" /\ task # 0 => heap[1].start >= start)

C13_Witness ==
  /\ pc = "ran"
  /\ ever_run = LiveTasks
  /\ task = 1
  /\ order = <<1, 2>>
  /\ \E i \in 1..Len(heap) : heap[i].start > start

\* C14: the loop has returned only if every task has reported None; once every
\* task has reported None the loop neither sleeps nor runs anything (the queue
\* is empty, or in task.py holds only entries without a start, which are popped)
\* and it returns; while a run or a query is in progress some task is pending.
C14_ReturnsIffAllRetired ==
  /\ pc = "done" => retired = Tasks /\ heap = <<>>
  /\ (pc = "peek" /\ retired = Tasks) =>
       /\ \A i \in 1..Len(heap) : heap[i].start = None
       /\ variant = "scheduler" => heap = <<>>
  /\ (pc = "peek" /\ heap = <<>>) => retired = Tasks
  /\ Picked => retired # Tasks

C14_Witness ==
  /\ pc = "done"
  /\ ever_run = {1, 3}
  /\ now = 2

\* the name destination d holds for snapshot x
NameOn(d, x) == get_snapshot_full_name(destinations[d], x)

\* C15: when a replication run has failed while at destination k (k = 0: before
\* the first destination), every transfer the run made went to a destination
\* 1..k and what it transferred is still there, the destinations after k are as
\* they were when the run began, nothing a destination held when the run began
\* is gone, and last_run has the value it had when the run began.
C15_FailFastKeepsProgress ==
  r_pc = "failed" =>
    /\ \A i \in 1..Len(transfers) :
         /\ transfers[i][1] <= dest_i
         /\ NameOn(transfers[i][1], transfers[i][3]) \in dst_names[transfers[i][1]]
    /\ \A d \in Dests :
         /\ hist.names_at_start[d] \subseteq dst_names[d]
         /\ d > dest_i => /\ dst_names[d] = hist.names_at_start[d]
                          /\ dst_exists[d] = hist.exists_at_start[d]
    /\ last_run = hist.last_run_at_start

C15_Witness ==
  /\ r_pc = "failed"
  /\ dest_i = 2
  /\ Len(TransfersTo(1)) = 2
  /\ Len(TransfersTo(2)) = 1
  /\ now > last_run

\* a response without the lines that do not carry the replica's prefix
OnlyManaged(replica, resp) ==
  [resp EXCEPT !.lines = SelectSeq(resp.lines,
                                   LAMBDA nm : nm.prefix = replica.snapshot_prefix)]

\* the listing is one the parsing is applied to
Parsed(resp) == resp.returncode = 0 /\ resp.stderr # NoDatasets /\ resp.header = "NAME"

\* C16: what list() returns holds one snapshot per line that carries the
\* replica's prefix: those lines' timestamps and nothing else, in strictly
\* ascending order whatever the order of the lines; and the lines without the
\* prefix change nothing: the call does what it does on the listing without
\* them.
C16_ListManagedSorted ==
  listing.pc = "listed" =>
    LET replica == listing.replica
        resp == listing.response
        ret == listing.result.ret
        managed == Managed(replica, Range(resp.lines))
    IN /\ listing.result = list_call(replica, OnlyManaged(replica, resp), now)
       /\ (~listing.result.raised /\ Parsed(resp)) =>
            /\ Len(ret) = Cardinality(managed)
            /\ Range(ret) = {strptime(nm.time, replica.date_fstring) : nm \in managed}
            /\ \A i \in 1..(Len(ret) - 1) : ret[i] < ret[i + 1]

C16_Witness ==
  /\ listing.pc = "listed"
  /\ ~listing.result.raised
  /\ Len(listing.result.ret) = 2
  /\ Len(listing.response.lines) = 3
  /\ listing.response.lines[1].prefix = listing.replica.snapshot_prefix
  /\ listing.response.lines[3].prefix = listing.replica.snapshot_prefix
  /\ strptime(listing.response.lines[1].time, DefaultFormat)
       > strptime(listing.response.lines[3].time, DefaultFormat)

\* C17: when the backend's answer says there is no such dataset (its stderr is
\* the message list() looks for), list() returns the empty sequence and does
\* not raise.
C17_MissingDatasetListsEmpty ==
  (listing.pc = "listed" /\ listing.response.stderr = NoDatasets) =>
    listing.result = Returned(<<>>)

\* C18: snapshot_t(ts) raises exactly when ts is after the clock, and a listing
\* that is parsed and holds a line with the replica's prefix dated after the
\* clock makes list() raise.
C18_FutureSnapshotRejected ==
  /\ listing.pc = "built" => (listing.raised <=> listing.ts > now)
  /\ listing.pc = "listed" =>
       LET replica == listing.replica
           resp == listing.response
       IN (/\ Parsed(resp)
           /\ \E nm \in Managed(replica, Range(resp.lines)) :
                strptime(nm.time, replica.date_fstring) > now)
          => listing.result.raised

C18_Witness ==
  /\ listing.pc = "listed"
  /\ Parsed(listing.response)
  /\ listing.replica.date_fstring = DefaultFormat
  /\ Len(listing.response.lines) = 2
  /\ \A i \in 1..2 : listing.response.lines[i].prefix = listing.replica.snapshot_prefix
  /\ strptime(listing.response.lines[1].time, DefaultFormat) = now
  /\ strptime(listing.response.lines[2].time, DefaultFormat) > now
  /\ listing.result.raised

\* w is not older than v, an absent max_age being older than every duration
AgeLeq(v, w) == w.max_age = None \/ (v.max_age # None /\ v.max_age <= w.max_age)

SortedByMaxAge(ws) == \A i, j \in 1..Len(ws) : i < j => AgeLeq(ws[i], ws[j])
SortedByPeriod(ws) == \A i, j \in 1..Len(ws) : i < j => ws[i].period <= ws[j].period

\* C19: a window list that is not in ascending order of max_age (absent last)
\* is rejected, and one that is (its periods in order too) is accepted, for
\* every max_age, zero included.
C19_SortedByMaxAgeAccepted ==
  cfg.pc = "built" =>
    /\ ~SortedByMaxAge(cfg.windows) => cfg.result # "accepted"
    /\ (SortedByMaxAge(cfg.windows) /\ SortedByPeriod(cfg.windows)) => cfg.result = "accepted"

\* C20: a window list with a window whose period is smaller than the period of
\* a window before it is rejected, whatever the max_age values are.
C20_DecreasingPeriodRejected ==
  cfg.pc = "built" =>
    (~SortedByPeriod(cfg.windows) => cfg.result # "accepted")

\* the loop's first pass has asked the k-th task for its next due time
Asked(k) ==
  /\ daemon.pc \in {"register", "loop", "crashed"}
  /\ k <= daemon.i \/ (daemon.pc = "crashed" /\ k = daemon.i + 1)

\* the time the snapshot task is due by its policy: the newest managed snapshot
\* of the source + snapshot_period, or at once (not after n) when there is none
DueByPolicy(names, due, n) ==
  IF Managed(source, names) = {}
    THEN due <= n
    ELSE due = Maximum(Range(list(source, names))) + snapshot_period

\* C21: a snapshot task that the loop has asked for its next due time has
\* answered, and its answer is the newest source snapshot + snapshot_period, or
\* a time that is already reached when the source has no snapshot
C21_SnapshotDueFromQuery ==
  \A k \in 1..Len(daemon.tasks) :
    (daemon.tasks[k].kind = "snapshoter" /\ Asked(k)) =>
      /\ k <= daemon.i
      /\ DueByPolicy(daemon.source, daemon.dues[k], now)

\* C22: the replicator's next due time is its construction time +
\* replication_period until a run returns normally; the run that returns at
\* time t makes it t + replication_period, whatever it transferred; no other
\* step changes it (a run that raises included) and it is never None
C22_NextDueAfterRun ==
  /\ get_next_runtime(last_run) = now + replication_period
  /\ [][/\ get_next_runtime(last_run') # None
        /\ IF r_pc # "returned" /\ r_pc' = "returned"
             THEN get_next_runtime(last_run') = now' + replication_period
             ELSE get_next_runtime(last_run') = get_next_runtime(last_run)]_vars

\* a run that made transfers has returned later than the replicator was built
C22_Witness ==
  /\ r_pc = "returned"
  /\ Len(transfers) >= 2
  /\ hist.last_run_at_start < now
  /\ get_next_runtime(last_run) = now + replication_period

\* C23: a step of a replication run that issues an incremental transfer finds
\* the name of the transfer's base on the destination; a pair whose `previous`
\* is not on the destination is where the walk ends: its step fails the run and
\* transfers nothing, and no step follows a failed run
C23_IncrementalBaseOnDestination ==
  [][/\ r_pc # "failed"
     /\ (Len(transfers') = Len(transfers) + 1 /\ transfers'[Len(transfers')][2] # None) =>
          LET t == transfers'[Len(transfers')]
          IN NameOn(t[1], t[2]) \in dst_names[t[1]]
     /\ (/\ r_pc = "pairs"
         /\ pair_i <= NumPairs(snapshots_s)
         /\ NameOn(dest_i, PairAt(snapshots_s, pair_i)[1]) \notin dst_names[dest_i]) =>
          /\ r_pc' = "failed" \/ UNCHANGED <<r_pc, dest_i, pair_i>>
          /\ transfers' = transfers
          /\ dst_names' = dst_names]_vars

\* a run has transferred incrementally to the first destination and has stopped
\* at the second, which lacks the base of the next pair
C23_Witness ==
  /\ r_pc = "failed"
  /\ dest_i = 2
  /\ \E i \in 1..Len(transfers) : transfers[i][1] = 1 /\ transfers[i][2] # None
  /\ pair_i <= NumPairs(snapshots_s)
  /\ NameOn(2, PairAt(snapshots_s, pair_i)[1]) \notin dst_names[2]
  /\ TransfersTo(2) = <<>>

\* C24: clone_to has returned only when both processes have exited with
\* status 0 and a poll of each has reported it; while a process runs, the call
\* has not returned; a poll that has reported a status other than 0 is followed
\* by the check that raises; the caller records the snapshot only after a
\* normal return
C24_ReturnsAfterBothSucceeded ==
  /\ clone.pc = "returned" =>
       \A x \in Sides : clone.proc[x].code = 0 /\ <<x, 0>> \in clone.seen
  /\ (\E x \in Sides : clone.proc[x].code = None) => clone.pc # "returned"
  /\ \A x \in Sides, c \in ExitCodes \ {0} :
       <<x, c>> \in clone.seen =>
         clone.pc \in {"raised", IF x = "source" THEN "read_source" ELSE "read_dest"}
  /\ clone.recorded => clone.pc = "returned"

\* an incremental transfer has returned and is recorded after polls that found
\* each process still running
C24_Witness ==
  /\ clone.pc = "returned"
  /\ clone.recorded
  /\ clone.old # None
  /\ \A x \in Sides : <<x, None>> \in clone.seen

\* a transfer has raised on the receive side's status after the send side
\* reported 0
C24_WitnessRaised ==
  /\ clone.pc = "raised"
  /\ <<"source", 0>> \in clone.seen
  /\ \E c \in ExitCodes \ {0} : <<"dest", c>> \in clone.seen

\* the source's names before the last snapshot run
NamesBefore ==
  IF s_run.created = 1 THEN src_names \ {get_snapshot_full_name(source, s_run.at)}
                       ELSE src_names

\* C25: a snapshot run that has returned has created one snapshot when the
\* source held no managed snapshot or the newest was snapshot_period old or older
\* (the age it has at the task's due time, newest + snapshot_period), and none
\* otherwise
C25_CreatesIffDue ==
  s_run.result = "returned" =>
    s_run.created =
      IF \/ Managed(source, NamesBefore) = {}
         \/ s_run.at - Maximum(Snapshots(source, NamesBefore)) >= snapshot_period
        THEN 1 ELSE 0

\* C26: a replication run that began on a source without managed snapshots has
\* failed before its first destination: it has made no transfer and every
\* destination exists or not, and holds the names, as when the run began
C26_EmptySourceFailsFirst ==
  (r_pc # "idle" /\ hist.src_at_start = {}) =>
    /\ r_pc = "failed"
    /\ dest_i = 0
    /\ transfers = <<>>
    /\ dst_names = hist.names_at_start
    /\ dst_exists = hist.exists_at_start

\* such a run has failed with one destination present and the other missing
C26_Witness ==
  /\ r_pc = "failed"
  /\ hist.src_at_start = {}
  /\ ListOk(source, src_names, now)
  /\ dst_exists[1] /\ ~dst_exists[2]

\* C27: the daemon that main starts on a source without snapshots does not end
\* with an error before its loop runs the first task
C27_StartsOnEmptySource ==
  (daemon.main /\ Managed(source, daemon.source) = {}) =>
    /\ daemon.error = "none"
    /\ daemon.pc # "crashed"

\* C28: the next due time a snapshot run returns is later than the clock value
\* the run was made at
C28_NextDueAfterNow ==
  s_run.result = "returned" => s_run.ret > s_run.at

\* C29: while a replication run walks the pairs for a destination, snapshots_d
\* holds exactly the managed snapshots under that destination; a step that makes
\* a transfer sends a snapshot the destination does not hold and that the run
\* has not sent to that destination before
C29_InMemoryListIsDestination ==
  [][/\ r_pc' = "pairs" =>
          Range(snapshots_d') = Snapshots(destinations[dest_i'], dst_names'[dest_i'])
     /\ Len(transfers') = Len(transfers) + 1 =>
          LET t == transfers'[Len(transfers')]
          IN /\ NameOn(t[1], t[3]) \notin dst_names[t[1]]
             /\ \A i \in 1..Len(transfers) :
                  <<transfers[i][1], transfers[i][3]>> # <<t[1], t[3]>>]_vars

\* the walk for the second destination, which held a snapshot when the run
\* began, has transferred another one
C29_Witness ==
  /\ r_pc = "pairs"
  /\ dest_i = 2
  /\ hist.names_at_start[2] # {}
  /\ Len(TransfersTo(2)) >= 1
  /\ Len(TransfersTo(1)) >= 2
  /\ Range(snapshots_d) = Snapshots(destinations[2], dst_names[2])

\* C30: no step of a snapshot, replication or prune run removes a name from the
\* source or from a destination, and no destination dataset ceases to exist
C30_NothingRemoved ==
  [][/\ src_names \subseteq src_names'
     /\ \A d \in Dests : /\ dst_names[d] \subseteq dst_names'[d]
                         /\ dst_exists[d] => dst_exists'[d]]_vars

\* a prune has run, a snapshot run has created a snapshot and a replication run
\* has returned after transfers to both destinations
C30_Witness ==
  /\ p_run.result = "returned"
  /\ s_run.created = 1
  /\ r_pc = "returned"
  /\ \A d \in Dests : Len(TransfersTo(d)) >= 1
  /\ Cardinality(src_names) > Cardinality(hist.src_at_start)

\* the classes of the tasks main has built, in the order of the list
BuiltKinds == [k \in 1..Len(daemon.tasks) |-> daemon.tasks[k].kind]

\* C31: when main has built its list, the list holds a snapshoter, a replicator
\* and a pruner for each dataset, in that order; every task of it has a run
\* method and the method the scheduler asks for the next due time, and the
\* scheduler's first pass over the list does not end with an error
C31_InitialPassCompletes ==
  (daemon.main /\ daemon.pc # "build") =>
    /\ \E n \in 1..NumDatasets : BuiltKinds = TaskList(n)
    /\ \A k \in 1..Len(daemon.tasks) :
         /\ "run" \in Methods(daemon.tasks[k].kind)
         /\ Asked(k) => k <= daemon.i
    /\ daemon.pc # "crashed"

\* C9: parsing the name get_snapshot_full_name renders, the way list() parses
\* it, yields the timestamp that was rendered.
C9_RoundTrip ==
  naming.pc = "parsed" => naming.parsed = naming.ts
====
